---- MODULE Spec2Model ----
(***************************************************************************)
(* Model of 433-Nexus-to-Serial-Arduino.ino: the pin-change interrupt      *)
(* handler that assembles 36-bit Nexus frames from pulse widths, the       *)
(* bounded frame queue, and the once-per-second evaluation in loop() that  *)
(* accepts a frame on the second identical copy and prints one record.     *)
(*                                                                         *)
(* A uint64_t is a tuple of four 16-bit limbs (least significant first)    *)
(* and a uint32_t a tuple of two, so that every width of the program is    *)
(* kept although TLC's integers have 32 bits.                              *)
(***************************************************************************)
EXTENDS Integers, Sequences, FiniteSets, TLC

VARIABLES
    \* ---- interrupt handler (volatile globals, lines 126-129)
    val,            \* uint64_t accumulator
    bits,           \* byte bit counter
    t0,             \* time of the last processed edge (holds a uint32_t)
    s0,             \* level of the last processed edge
    gotone,         \* the last high pulse was a valid 500 us marker
    \* ---- frame queue (line 123)
    fifo,
    \* ---- loop() and the evaluator (lines 106-112, 127, 139)
    pc,
    lval, refval, twoValidSets,
    previousMillis,
    temperature, battery, humidity, id,
    serial,         \* the records printed on the serial port, in order
    \* ---- the environment: receiver pin, timers, the transmitter's script
    pin,            \* level of the receiver pin
    us,             \* micros(), uint32_t
    ms,             \* millis()
    frac,           \* microseconds into the current millisecond
    scn,            \* the scenario: frames transmitted, lead time, noise budget
    edges,          \* pin edges the transmitter has produced so far
    since,          \* time since the last pin edge spent without one (idle, glitch)
    lastHi,         \* width of the last high pulse on the pin
    lastLow,        \* width of the last low period on the pin
    devLeft,        \* off-nominal pulses the transmitter may still produce
    waits,          \* idle periods taken so far
    isrInTick,      \* edges handled since the running tick started
    \* ---- history (not read by the program)
    fed,            \* bits fed by consecutive valid bit pulses since the accumulator was empty
    enqLog,         \* every frame handed to fifo.enqueue, in order
    fifoIds,        \* for each queued frame, its index in enqLog
    deqIds,         \* indices (in enqLog) of the frames dequeued so far, in order
    sinceDrain,     \* frames handed to enqueue since the last dequeue or flush
    lenAtDrain,     \* queue length right after the last dequeue or flush
    tickLog,        \* frames dequeued in the running tick, in order
    emitAt,         \* for each record printed in the running tick, the number of frames dequeued in the tick by then
    flushed,        \* frames discarded by the last flush
    tickBase,       \* number of frames handed to enqueue before the running tick started
    startIds,       \* indices (in enqLog) of the frames queued when the running tick started
    flushedIds,     \* indices of the frames discarded by flushes in the running tick
    lostIds         \* indices of the queued frames overwritten by an enqueue on the full queue
                    \* since the running tick started

vars == << val, bits, t0, s0, gotone, fifo, pc, lval, refval, twoValidSets,
           previousMillis, temperature, battery, humidity, id, serial,
           pin, us, ms, frac, scn, edges, since, lastHi, lastLow, devLeft, waits, isrInTick,
           fed, enqLog, fifoIds, deqIds, sinceDrain, lenAtDrain,
           tickLog, emitAt, flushed, tickBase, startIds, flushedIds, lostIds >>

----------------------------------------------------------------------------
(* Program constants *)

TOL == 100              \* #define TOL 100
QSize == 10             \* SimpleFIFO<uint64_t, 10>
Interval == 1000        \* long interval = 1000
FrameBits == 36         \* if (bits == 36)
MarkerWidth == 500      \* d > 500 - TOL && d < 500 + TOL
ZeroWidth == 1000       \* d > 1000 - TOL && d < 1000 + TOL
OneWidth == 2000        \* d > 2000 - TOL && d < 2000 + TOL
GapWidth == 4000        \* d > 4000 - TOL && d < 4000 + TOL
BurstLen == 10          \* the sensor sends a burst of 10 x 36 bit data sequences

(* Bounds of the model *)

MaxShort == 2           \* longest script made of freely chosen frames
MaxDev == 1             \* off-nominal pulses per noisy transmission
MaxWaits == 3           \* idle periods per run
MaxIsrPerTick == 1      \* edges handled while one tick's drain is running

----------------------------------------------------------------------------
(* Fixed-width unsigned arithmetic *)

W16 == 256 * 256
Pow2(n) == 2 ^ n

Zero64 == << 0, 0, 0, 0 >>
Zero32 == << 0, 0 >>

\* bit i (0 = least significant) of a limb tuple
Bit(v, i) == (v[(i \div 16) + 1] \div Pow2(i % 16)) % 2

\* (v >> sh) & (2^w - 1), for w <= 16
RECURSIVE Field(_, _, _)
Field(v, sh, w) ==
    IF w = 0 THEN 0 ELSE Bit(v, sh) + 2 * Field(v, sh + 1, w - 1)

\* v <<= 1 on a uint64_t: the top bit is shifted out
Shl1(v) ==
    [ i \in 1..4 |->
        ((v[i] * 2) % W16) + (IF i = 1 THEN 0 ELSE v[i - 1] \div (W16 \div 2)) ]

\* v |= 1
Or1(v) == [ v EXCEPT ![1] = (v[1] \div 2) * 2 + 1 ]

\* a small natural number as a uint32_t
U32(n) == << n % W16, (n \div W16) % W16 >>

\* a + b on uint32_t
Add32(a, b) ==
    LET lo == a[1] + b[1]
    IN  << lo % W16, (a[2] + b[2] + lo \div W16) % W16 >>

\* a variant that subtracts the halves without the borrow
Sub32NoBorrow(a, b) ==
    << (a[1] - b[1] + W16) % W16, (a[2] - b[2] + W16) % W16 >>

\* a - b on uint32_t (wraps modulo 2^32)
Sub32(a, b) ==
    LET borrow == IF a[1] < b[1] THEN 1 ELSE 0
    IN  << (a[1] - b[1] + W16) % W16, (a[2] - b[2] - borrow + 2 * W16) % W16 >>


\* comparisons of a uint32_t with a small natural number
Gt32(d, n) == d[2] > 0 \/ d[1] > n
Lt32(d, n) == d[2] = 0 /\ d[1] < n


----------------------------------------------------------------------------
(* The transmitter: Nexus frames and the pulse train that carries them *)

\* A 36-bit frame from its fields: id(8) battery(1) 0 channel(2)
\* temperature(12) 1111 humidity(8), most significant field first.
MkFrame(idv, bat, ch, temp, nib, hum) ==
    << hum + 256 * nib + 4096 * (temp % 16),
       (temp \div 16) + 256 * ch + 2048 * bat + 4096 * (idv % 16),
       idv \div 16,
       0 >>

Frames ==
    << MkFrame(3, 1, 0, 10, 15, 45),        \* 1.0 C, battery ok
       MkFrame(3, 0, 0, 4087, 15, 80),      \* -0.9 C (0xFF7), battery low
       MkFrame(3, 1, 0, 10, 11, 45),        \* marker nibble 1011: invalid
       MkFrame(200, 1, 1, 2048, 15, 0),     \* 0x800
       MkFrame(129, 0, 2, 2047, 15, 255) >> \* 0x7FF

FrameIds == 1..Len(Frames)

RECURSIVE SeqsUpTo(_, _)
SeqsUpTo(S, n) ==
    IF n = 0 THEN { << >> }
    ELSE LET shorter == SeqsUpTo(S, n - 1)
         IN  shorter \cup { Append(q, x) : q \in { r \in shorter : Len(r) = n - 1 }, x \in S }

Repeat(x, n) == [ i \in 1..n |-> x ]

\* A run of bit pulses with no gap in it, long enough for the byte bits to
\* wrap and count to 36 again; the script << 0 >> stands for a gap, RunBits
\* pulses of a 1 bit and a closing gap.
RunBits == 256 + FrameBits
Overrun == << 0 >>

\* what the transmitter sends in one run
Scripts ==
    (SeqsUpTo({1, 2, 3}, MaxShort) \ { << >> })
    \cup { Repeat(x, 2) : x \in FrameIds }
    \cup { << x, y, x >> : x \in {1, 2}, y \in {1, 2, 3} }
    \cup { << 1, 1, 2, 2 >> }
    \cup { Repeat(1, BurstLen) }
    \cup { [ i \in 1..(QSize + 1) |-> IF i % 3 = 0 THEN 3 ELSE 1 + (i % 2) ] }
    \cup { Overrun }

Scenarios ==
    { [ script |-> q, lead |-> l, noisy |-> FALSE ] : q \in Scripts, l \in BOOLEAN }
    \cup { [ script |-> << x >>, lead |-> FALSE, noisy |-> TRUE ] : x \in {1, 2} }

\* Symbol i of a script: every frame is a 4000 us gap followed by its 36
\* bits, first bit = bit 35; one more gap closes the last frame.
SymsPerFrame == FrameBits + 1
NumSyms(q) == IF q = Overrun THEN RunBits + 2 ELSE SymsPerFrame * Len(q) + 1
SymBit(q, i) ==
    IF q = Overrun THEN 1
    ELSE Bit(Frames[q[((i - 1) \div SymsPerFrame) + 1]],
             FrameBits - ((i - 1) % SymsPerFrame))
SymIsGap(q, i) ==
    IF q = Overrun THEN i \in { 1, RunBits + 2 }
    ELSE (i - 1) % SymsPerFrame = 0
SymWidth(q, i) ==
    IF SymIsGap(q, i) THEN GapWidth
    ELSE IF SymBit(q, i) = 1 THEN OneWidth ELSE ZeroWidth

NoiseWidth == ZeroWidth + OneWidth
Devs(w) == { w - TOL, w - TOL + 1, w + TOL - 1, w + TOL, NoiseWidth }
IdleUs == (Interval + 1) * 1000
\* a long silence before the transmission: micros() is 4500 us before it
\* wraps, so that it wraps at the end of the first marker pulse
LeadUs == << W16 - 9 * MarkerWidth, W16 - 1 >>
LeadMs == 4294967 - 5
LeadFrac == 296 + 500
Broken == << 2 >>

\* strictly within the tolerance around a nominal width
Near(d, w) == d > w - TOL /\ d < w + TOL


----------------------------------------------------------------------------
(* The frame queue: SimpleFIFO<uint64_t, 10> *)

\* What enqueue does with a full queue: reject the new frame or overwrite
\* the oldest one.
OverflowPolicies == { "dropNewest", "overwriteOldest" }

Range(q) == { q[i] : i \in 1..Len(q) }

\* a variant that counts one frame too few
FifoCountShort(q) == Len(q) - 1

FifoCount(q) == Len(q)

\* a variant without the capacity check
FifoEnqueueUnbounded(q, e, pol) == Append(q, e)

FifoEnqueue(q, e, pol) ==
    IF Len(q) < QSize THEN Append(q, e)
    ELSE IF pol = "dropNewest" THEN q
    ELSE Append(Tail(q), e)

\* a variant that hands out the newest frame
FifoNewest(q) == q[Len(q)]

FifoFront(q) == Head(q)
FifoRest(q) == Tail(q)
FifoFlush(q) == << >>

----------------------------------------------------------------------------
(* handleInterrupt() *)

\* a variant that takes the ends of the window in: d >= w - TOL && d <= w + TOL
InWindowClosed(d, w) == Gt32(d, w - TOL - 1) /\ Lt32(d, w + TOL + 1)

\* a variant with twice the tolerance
InWindowWide(d, w) == Gt32(d, w - 2 * TOL) /\ Lt32(d, w + 2 * TOL)

\* a variant without the upper limit
InWindowLower(d, w) == Gt32(d, w - TOL)

\* d > w - TOL && d < w + TOL
InWindow(d, w) == Gt32(d, w - TOL) /\ Lt32(d, w + TOL)

\* a variant that sets the low bit before it shifts
AppendBitSwapped(v, b) == Shl1(IF b = 1 THEN Or1(v) ELSE v)

\* val <<= 1; [val |= 1;]
AppendBit(v, b) == IF b = 1 THEN Or1(Shl1(v)) ELSE Shl1(v)

\* bits++ on a byte
IncBits(n) == (n + 1) % 256

\* a variant that also takes a frame one bit short
FrameCompleteLoose(n) == n >= FrameBits - 1

\* bits == 36
FrameComplete(n) == n = FrameBits

\* a variant that takes every interrupt for a level change
LevelChangedAlways(a, b) == a = a

\* s0 != s
LevelChanged(a, b) == a # b

NoEnqueue == UNCHANGED << fifo, fifoIds, enqLog, sinceDrain, lostIds >>

Enqueue(e) ==
    \E pol \in OverflowPolicies :
        /\ fifo' = FifoEnqueue(fifo, e, pol)
        /\ fifoIds' = FifoEnqueue(fifoIds, Len(enqLog) + 1, pol)
        /\ enqLog' = Append(enqLog, e)
        /\ sinceDrain' = sinceDrain + 1
        /\ lostIds' = lostIds \cup { i \in Range(fifoIds) : i \notin Range(fifoIds') }

HandleInterrupt(s, t) ==
    LET d == Sub32(t, t0)
    IN  IF LevelChanged(s0, s)
        THEN /\ t0' = t
             /\ s0' = s
             /\ IF s = 1
                THEN /\ gotone' = gotone
                     /\ IF gotone /\ InWindow(d, ZeroWidth)
                        THEN /\ val' = AppendBit(val, 0)
                             /\ bits' = IncBits(bits)
                             /\ NoEnqueue
                        ELSE IF gotone /\ InWindow(d, OneWidth)
                        THEN /\ val' = AppendBit(val, 1)
                             /\ bits' = IncBits(bits)
                             /\ NoEnqueue
                        ELSE IF gotone /\ InWindow(d, GapWidth)
                        THEN /\ IF FrameComplete(bits) THEN Enqueue(val) ELSE NoEnqueue
                             /\ val' = Zero64
                             /\ bits' = 0
                        ELSE /\ UNCHANGED << val, bits >>
                             /\ NoEnqueue
                ELSE /\ gotone' = InWindow(d, MarkerWidth)
                     /\ UNCHANGED << val, bits >>
                     /\ NoEnqueue
        ELSE /\ UNCHANGED << val, bits, t0, s0, gotone >>
             /\ NoEnqueue

----------------------------------------------------------------------------
(* The environment: time, the pin, and the interrupts it raises *)

InTick == pc \in { "while", "deq", "check", "eval", "send" }

mainVars == << pc, lval, refval, twoValidSets, previousMillis,
               temperature, battery, humidity, id, serial >>
tickHist == << deqIds, lenAtDrain, tickLog, emitAt, flushed, tickBase, startIds, flushedIds >>

TotalEdges == 2 * NumSyms(scn.script) + 2

Advance(delta) ==
    /\ us' = Add32(us, U32(delta))
    /\ frac' = (frac + delta) % 1000
    /\ ms' = ms + ((frac + delta) \div 1000)

IsrBudget ==
    /\ InTick => isrInTick < MaxIsrPerTick
    /\ isrInTick' = IF InTick THEN isrInTick + 1 ELSE isrInTick

\* bits fed by consecutive clean bit pulses since the accumulator was empty
FedAfter(cleanBit, b) ==
    IF val' = Zero64 /\ bits' = 0 THEN << >>
    ELSE IF fed = Broken \/ ~cleanBit THEN Broken
    ELSE Append(fed, b)

\* the pin rises after a low period: the end of symbol edges / 2
Rise(delta) ==
    LET r == edges \div 2
        w == since + delta
        clean == /\ r >= 1
                 /\ ~SymIsGap(scn.script, r)
                 /\ Near(lastHi, MarkerWidth)
                 /\ Near(w, SymWidth(scn.script, r))
    IN  /\ pin = 0
        /\ Advance(delta)
        /\ pin' = 1
        /\ edges' = edges + 1
        /\ since' = 0
        /\ lastHi' = lastHi
        /\ lastLow' = w
        /\ HandleInterrupt(1, us')
        /\ fed' = FedAfter(clean, IF clean THEN SymBit(scn.script, r) ELSE 0)

\* the pin falls after a high pulse
Fall(delta) ==
    /\ pin = 1
    /\ Advance(delta)
    /\ pin' = 0
    /\ edges' = edges + 1
    /\ since' = 0
    /\ lastHi' = since + delta
    /\ lastLow' = lastLow
    /\ HandleInterrupt(0, us')
    /\ fed' = IF val' = Zero64 /\ bits' = 0 THEN << >> ELSE fed

NominalWidth ==
    IF edges % 2 = 1 THEN MarkerWidth
    ELSE IF edges = 0 THEN GapWidth
    ELSE SymWidth(scn.script, edges \div 2)

\* the next edge of the transmission, at its nominal width
NominalEdge ==
    /\ edges < TotalEdges
    /\ (edges = 0 /\ scn.lead) => waits = 1
    /\ IsrBudget
    /\ IF pin = 0 THEN Rise(NominalWidth) ELSE Fall(NominalWidth)
    /\ UNCHANGED << mainVars, tickHist, scn, devLeft, waits >>

\* the next edge, with a pulse width at or next to a window's end, or noise
DeviantEdge ==
    /\ edges < TotalEdges
    /\ edges > 0
    /\ devLeft > 0
    /\ IsrBudget
    /\ \E delta \in Devs(NominalWidth) :
          IF pin = 0 THEN Rise(delta) ELSE Fall(delta)
    /\ devLeft' = devLeft - 1
    /\ UNCHANGED << mainVars, tickHist, scn, waits >>

\* an interrupt at which the pin reads the level it had at the last edge
Glitch ==
    /\ edges < TotalEdges
    /\ edges > 0
    /\ devLeft > 0
    /\ IsrBudget
    /\ Advance(TOL)
    /\ since' = since + TOL
    /\ HandleInterrupt(pin, us')
    /\ fed' = IF val' = Zero64 /\ bits' = 0 THEN << >> ELSE Broken
    /\ devLeft' = devLeft - 1
    /\ UNCHANGED << mainVars, tickHist, scn, waits, pin, edges, lastHi, lastLow >>

\* silence before the transmission starts
Lead ==
    /\ edges = 0
    /\ scn.lead
    /\ waits = 0
    /\ ~InTick
    /\ us' = Add32(us, LeadUs)
    /\ ms' = ms + LeadMs
    /\ frac' = LeadFrac
    /\ waits' = 1
    /\ UNCHANGED << val, bits, t0, s0, gotone, fifo, fifoIds, enqLog, sinceDrain, lostIds,
                    mainVars, tickHist, pin, scn, edges, since, lastHi, lastLow, devLeft,
                    isrInTick, fed >>

\* silence after the transmission
Idle ==
    /\ edges = TotalEdges
    /\ waits < MaxWaits
    /\ ~InTick
    /\ Advance(IdleUs)
    /\ since' = since + IdleUs
    /\ waits' = waits + 1
    /\ UNCHANGED << val, bits, t0, s0, gotone, fifo, fifoIds, enqLog, sinceDrain, lostIds,
                    mainVars, tickHist, pin, scn, edges, lastHi, lastLow, devLeft,
                    isrInTick, fed >>


----------------------------------------------------------------------------
(* loop(), evaluateBitSeries(), sendDataToSerial() *)

isrVars == << val, bits, t0, s0, gotone >>
envVars == << pin, us, ms, frac, scn, edges, since, lastHi, lastLow, devLeft, waits >>

\* a variant that tests the nibble above the marker
MarkerOkShifted(f) == Field(f, 12, 4) = 15

\* a variant without the marker check
MarkerOkAny(f) == f = f

\* ((lval >> 8) & 0xF) == 0b1111
MarkerOk(f) == Field(f, 8, 4) = 15

\* a variant without the test of twoValidSets
AcceptsAgain(f, ref, two) == MarkerOk(f) /\ f = ref

\* the frame passes both checks: it is evaluated and printed
Accepts(f, ref, two) == two = FALSE /\ MarkerOk(f) /\ f = ref

\* a variant with refval = lval after the block of the marker check
NextRefAlways(f, ref, two) == IF two = FALSE THEN f ELSE ref

\* refval after a frame that was not accepted: refval = lval is inside the
\* block of the marker check
NextRef(f, ref, two) == IF two = FALSE /\ MarkerOk(f) THEN f ELSE ref

\* a | b on 16-bit values
RECURSIVE Or16(_, _, _)
Or16(a, b, n) ==
    IF n = 0 THEN 0
    ELSE (IF a % 2 = 1 \/ b % 2 = 1 THEN 1 ELSE 0) + 2 * Or16(a \div 2, b \div 2, n - 1)

\* (int16_t) of a uint16_t
AsInt16(x) == IF x >= W16 \div 2 THEN x - W16 ELSE x

\* dummy1 | 0xFFFFF000 stored in a uint16_t
SignFill == 15 * 4096

\* a variant without the sign extension
DecodeTemperatureUnsigned(f) == AsInt16(Field(f, 12, 12))

\* the temperature of evaluateBitSeries(), an int16_t
DecodeTemperature(f) ==
    IF Field(f, 23, 1) = 1
    THEN LET dummy1 == Field(f, 12, 12)
             dummy2 == Or16(dummy1, SignFill, 16)
         IN  AsInt16(dummy2)
    ELSE AsInt16(Field(f, 12, 12))

DecodeHumidity(f) == Field(f, 0, 8)
\* a variant that reads the bit below the battery flag
DecodeBatteryShifted(f) == Field(f, 26, 1)

DecodeBattery(f) == Field(f, 27, 1)
DecodeId(f) == Field(f, 28, 8)

\* the line sendDataToSerial() prints: number=<id> temperature=<t>,
\* battery=<b>,humidity=<h>; src is the frame in lval when it is printed
Record(src) ==
    [ number |-> id, temperature |-> temperature, battery |-> battery,
      humidity |-> humidity, src |-> src ]

\* Scheduling bound: an iteration of loop() is followed from its start only
\* where an enqueue can fall into its drain, that is up to MaxIsrPerTick
\* edges before the edge that ends a gap, right after it, or while the
\* transmitter is silent.  Between these points the handler does not touch
\* the queue, so an iteration started there meets the same queue.
PollPoint ==
    \/ edges <= 1
    \/ edges = TotalEdges
    \/ \E k \in 0..(MaxIsrPerTick + 1) :
          /\ (edges + k - 1) % 2 = 0
          /\ SymIsGap(scn.script, (edges + k - 1) \div 2)

\* currentMillis - previousMillis > interval: a tick starts
LoopTick ==
    /\ pc = "loop"
    /\ PollPoint
    /\ ms - previousMillis > Interval
    /\ previousMillis' = ms
    /\ pc' = "while"
    /\ tickLog' = << >>
    /\ emitAt' = << >>
    /\ tickBase' = Len(enqLog)
    /\ startIds' = Range(fifoIds)
    /\ flushedIds' = { }
    /\ lostIds' = { }
    /\ isrInTick' = 0
    /\ UNCHANGED << isrVars, envVars, fifo, fifoIds, enqLog, sinceDrain, fed,
                    lval, refval, twoValidSets, temperature, battery, humidity,
                    id, serial, deqIds, lenAtDrain, flushed >>

\* no tick is due
LoopSkip ==
    /\ pc = "loop"
    /\ PollPoint
    /\ ~(ms - previousMillis > Interval)
    /\ pc' = "reset"
    /\ UNCHANGED << isrVars, envVars, lostIds, fifo, fifoIds, enqLog, sinceDrain, fed,
                    lval, refval, twoValidSets, previousMillis, temperature,
                    battery, humidity, id, serial, tickHist, isrInTick >>

\* while (fifo.count() > 0)
WhileTest ==
    /\ pc = "while"
    /\ pc' = IF FifoCount(fifo) > 0 THEN "deq" ELSE "reset"
    /\ UNCHANGED << isrVars, envVars, lostIds, fifo, fifoIds, enqLog, sinceDrain, fed,
                    lval, refval, twoValidSets, previousMillis, temperature,
                    battery, humidity, id, serial, tickHist, isrInTick >>

\* lval = fifo.dequeue()
Dequeue ==
    /\ pc = "deq"
    /\ lval' = FifoFront(fifo)
    /\ fifo' = FifoRest(fifo)
    /\ fifoIds' = FifoRest(fifoIds)
    /\ deqIds' = Append(deqIds, FifoFront(fifoIds))
    /\ sinceDrain' = 0
    /\ lenAtDrain' = Len(fifo')
    /\ tickLog' = Append(tickLog, lval')
    /\ pc' = "check"
    /\ UNCHANGED << isrVars, envVars, lostIds, enqLog, fed, refval, twoValidSets,
                    previousMillis, temperature, battery, humidity, id, serial,
                    emitAt, flushed, tickBase, startIds, flushedIds, isrInTick >>

\* the marker check and the comparison with the reference frame
Check ==
    /\ pc = "check"
    /\ IF Accepts(lval, refval, twoValidSets)
       THEN pc' = "eval" /\ refval' = refval
       ELSE pc' = "while" /\ refval' = NextRef(lval, refval, twoValidSets)
    /\ UNCHANGED << isrVars, envVars, lostIds, fifo, fifoIds, enqLog, sinceDrain, fed,
                    lval, twoValidSets, previousMillis, temperature, battery,
                    humidity, id, serial, tickHist, isrInTick >>

\* evaluateBitSeries()
Evaluate ==
    /\ pc = "eval"
    /\ twoValidSets' = TRUE
    /\ humidity' = DecodeHumidity(lval)
    /\ temperature' = DecodeTemperature(lval)
    /\ battery' = DecodeBattery(lval)
    /\ id' = DecodeId(lval)
    /\ fifo' = FifoFlush(fifo)
    /\ fifoIds' = FifoFlush(fifoIds)
    /\ flushed' = fifo
    /\ flushedIds' = flushedIds \cup Range(fifoIds)
    /\ sinceDrain' = 0
    /\ lenAtDrain' = 0
    /\ pc' = "send"
    /\ UNCHANGED << isrVars, envVars, lostIds, enqLog, fed, lval, refval, previousMillis,
                    serial, deqIds, tickLog, emitAt, tickBase, startIds, isrInTick >>

\* sendDataToSerial(); refval = lval
Send ==
    /\ pc = "send"
    /\ serial' = Append(serial, Record(lval))
    /\ emitAt' = Append(emitAt, Len(tickLog))
    /\ refval' = lval
    /\ pc' = "while"
    /\ UNCHANGED << isrVars, envVars, lostIds, fifo, fifoIds, enqLog, sinceDrain, fed,
                    lval, twoValidSets, previousMillis, temperature, battery,
                    humidity, id, deqIds, lenAtDrain, tickLog, flushed, tickBase,
                    startIds, flushedIds, isrInTick >>

\* a variant of the end of loop() without the two assignments
ResetKeeps ==
    /\ pc = "reset"
    /\ pc' = "loop"
    /\ UNCHANGED << isrVars, envVars, lostIds, fifo, fifoIds, enqLog, sinceDrain, fed,
                    lval, refval, twoValidSets, previousMillis, temperature,
                    battery, humidity, id, serial, tickHist, isrInTick >>

\* refval = 0; twoValidSets = false; loop() returns and is called again
Reset ==
    /\ pc = "reset"
    /\ refval' = Zero64
    /\ twoValidSets' = FALSE
    /\ pc' = "loop"
    /\ UNCHANGED << isrVars, envVars, lostIds, fifo, fifoIds, enqLog, sinceDrain, fed,
                    lval, previousMillis, temperature, battery, humidity, id,
                    serial, tickHist, isrInTick >>

----------------------------------------------------------------------------
(* The specification *)

Init ==
    /\ val = Zero64 /\ bits = 0 /\ t0 = Zero32 /\ s0 = 0 /\ gotone = FALSE
    /\ fifo = << >>
    /\ pc = "loop"
    /\ lval = Zero64 /\ refval = Zero64 /\ twoValidSets = FALSE
    /\ previousMillis = 0
    /\ temperature = 0 /\ battery = 0 /\ humidity = 0 /\ id = 0
    /\ serial = << >>
    /\ pin = 0 /\ us = Zero32 /\ ms = 0 /\ frac = 0
    /\ scn \in Scenarios
    /\ edges = 0 /\ since = 0 /\ lastHi = 0 /\ lastLow = 0
    /\ devLeft = IF scn.noisy THEN MaxDev ELSE 0
    /\ waits = 0
    /\ isrInTick = 0
    /\ fed = << >>
    /\ enqLog = << >> /\ fifoIds = << >> /\ deqIds = << >>
    /\ sinceDrain = 0 /\ lenAtDrain = 0
    /\ tickLog = << >> /\ emitAt = << >> /\ flushed = << >> /\ tickBase = 0
    /\ startIds = { } /\ flushedIds = { } /\ lostIds = { }

Next ==
    \/ NominalEdge
    \/ DeviantEdge
    \/ Glitch
    \/ Lead
    \/ Idle
    \/ LoopTick
    \/ LoopSkip
    \/ WhileTest
    \/ Dequeue
    \/ Check
    \/ Evaluate
    \/ Send
    \/ Reset

Spec == Init /\ [][Next]_vars

\* the statements of a tick's drain: once loop() is in its tick it keeps
\* running, and every interrupt returns to it
Drain == WhileTest \/ Dequeue \/ Check \/ Evaluate \/ Send

LiveSpec == Spec /\ WF_vars(Drain)


----------------------------------------------------------------------------
(* Properties *)

\* bits 8..11 of a frame are 1111
Marker1111(f) == Bit(f, 8) = 1 /\ Bit(f, 9) = 1 /\ Bit(f, 10) = 1 /\ Bit(f, 11) = 1

\* the value of 36 bits read most significant bit first
FrameOfBits(q) ==
    [ j \in 1..4 |->
        LET Term(b) == LET i == 16 * (j - 1) + b
                       IN  IF i < FrameBits THEN q[FrameBits - i] * Pow2(b) ELSE 0
        IN  Term(0) + Term(1) + Term(2) + Term(3) + Term(4) + Term(5) + Term(6)
            + Term(7) + Term(8) + Term(9) + Term(10) + Term(11) + Term(12)
            + Term(13) + Term(14) + Term(15) ]

\* the step is a rising edge that the handler processes; DNext is the
\* duration it computes
RisingStep == pin = 0 /\ pin' = 1 /\ s0 = 0
FallingStep == pin = 1 /\ pin' = 0 /\ s0 = 1
DNext == Sub32(us', t0)
DOpen(w) == DNext[2] = 0 /\ DNext[1] > w - TOL /\ DNext[1] < w + TOL
DClosed(w) == DNext[2] = 0 /\ DNext[1] >= w - TOL /\ DNext[1] <= w + TOL
DEnd(w) == DNext[2] = 0 /\ DNext[1] \in { w - TOL, w + TOL }

AppendsBit(b) ==
    /\ val' = (IF b = 1 THEN Or1(Shl1(val)) ELSE Shl1(val))
    /\ bits' = (bits + 1) % 256
    /\ fifo' = fifo
IsBoundary == val' = Zero64 /\ bits' = 0
NoBitNoBoundary == val' = val /\ bits' = bits /\ fifo' = fifo

\* C1: from an empty accumulator and a queue that is not full, 36
\* consecutive bit pulses (a marker pulse within the tolerance of 500 us,
\* then a low period within the tolerance of 1000 us for 0 or 2000 us for
\* 1) followed by a marker pulse and a low period within the tolerance of
\* 4000 us enqueue exactly one frame, whose value is the 36 bits read most
\* significant bit first.
C1_FrameAssembled ==
    [][ ( /\ RisingStep
          /\ fed # Broken
          /\ Len(fed) = FrameBits
          /\ since = 0
          /\ Near(lastHi, MarkerWidth)
          /\ DOpen(GapWidth)
          /\ Len(fifo) < QSize )
        => ( /\ fifo' = Append(fifo, FrameOfBits(fed))
             /\ enqLog' = Append(enqLog, FrameOfBits(fed)) ) ]_vars

\* a frame of the script was fed by 36 clean pulses and is in the queue as sent
C1_Witness ==
    /\ ~scn.noisy
    /\ Len(enqLog) = 1
    /\ scn.script # Overrun
    /\ fifo = << Frames[scn.script[1]] >>
    /\ Near(lastLow, GapWidth)
    /\ fed = << >>

\* C2 as stated: on a rising edge with gotone true, every d in the closed
\* interval [1000-TOL, 1000+TOL] appends a 0, every d in [2000-TOL, 2000+TOL]
\* appends a 1, and every d in [4000-TOL, 4000+TOL] is a frame boundary.
C2_ClosedWindows ==
    [][ (RisingStep /\ gotone)
        => ( /\ DClosed(ZeroWidth) => AppendsBit(0)
             /\ DClosed(OneWidth) => AppendsBit(1)
             /\ DClosed(GapWidth) => IsBoundary ) ]_vars

\* C2 amended: the windows are open.  Every d with 1000-TOL < d < 1000+TOL
\* appends a 0, every d with 2000-TOL < d < 2000+TOL appends a 1, every d
\* with 4000-TOL < d < 4000+TOL is a frame boundary, and the ends 900, 1100,
\* 1900, 2100, 3900 and 4100 are in no class: they append nothing and are
\* no boundary.
C2_OpenWindows ==
    [][ (RisingStep /\ gotone)
        => ( /\ DOpen(ZeroWidth) => AppendsBit(0)
             /\ DOpen(OneWidth) => AppendsBit(1)
             /\ DOpen(GapWidth) => IsBoundary
             /\ (DEnd(ZeroWidth) \/ DEnd(OneWidth) \/ DEnd(GapWidth))
                    => NoBitNoBoundary ) ]_vars

\* a low period of 901 us after a valid marker has been taken as a bit
C2_Witness ==
    /\ scn.noisy
    /\ pin = 1
    /\ lastLow = ZeroWidth - TOL + 1
    /\ Near(lastHi, MarkerWidth)
    /\ fed # Broken
    /\ Len(fed) >= 1
    /\ bits = Len(fed)


----------------------------------------------------------------------------
(* The evaluation tick *)

TickOver == pc \in { "reset", "loop" }

\* frames j-1 and j of the running tick are identical and carry the marker
ValidPairAt(j) ==
    /\ j >= 2
    /\ j <= Len(tickLog)
    /\ tickLog[j] = tickLog[j - 1]
    /\ Marker1111(tickLog[j])

\* no record was printed in the tick before its j-th frame was evaluated
NoRecordBefore(j) == \A k \in 1..Len(emitAt) : emitAt[k] >= j

\* C3: if two frames dequeued one directly after the other in the same tick
\* are identical and have bits 8..11 = 1111, and no record was printed
\* earlier in that tick, then exactly one record is printed in that tick,
\* when the second of them is evaluated, and every frame still in the queue
\* at that moment is flushed without being evaluated.
C3_PairAccepted ==
    /\ [] ( TickOver =>
              \A j \in 1..Len(tickLog) :
                  (ValidPairAt(j) /\ NoRecordBefore(j)) => emitAt = << j >> )
    /\ [][ (pc = "eval" /\ pc' = "send") =>
              ( /\ fifo' = << >>
                /\ flushed' = fifo
                /\ tickLog' = tickLog
                /\ deqIds' = deqIds ) ]_vars

\* a tick took two identical valid frames, printed one record at the second
\* and flushed a third frame unevaluated
C3_Witness ==
    /\ TickOver
    /\ Len(tickLog) = 2
    /\ ValidPairAt(2)
    /\ emitAt = << 2 >>
    /\ Len(flushed) = 1
    /\ Len(deqIds) = 2
    /\ Len(enqLog) = 3

\* the whole burst has been received and consumed
BurstConsumed ==
    /\ scn.script = Repeat(1, BurstLen)
    /\ ~scn.noisy
    /\ edges = TotalEdges
    /\ Len(enqLog) = BurstLen
    /\ fifo = << >>
    /\ TickOver

\* C4: for one burst of 10 identical valid frames fed from the initial
\* state, exactly one record is printed, wherever the ticks fall, and its
\* fields are those of the frame.
C4_OneRecordPerBurst ==
    BurstConsumed =>
        /\ Len(serial) = 1
        /\ serial[1].number = 3
        /\ serial[1].temperature = 10
        /\ serial[1].battery = 1
        /\ serial[1].humidity = 45

\* the temperature field of a frame as a signed 12-bit number
SignedField12(f) ==
    IF Bit(f, 23) = 0 THEN Field(f, 12, 12) ELSE Field(f, 12, 12) - 4096

\* C5: for every accepted frame f with t = (f >> 12) & 0xFFF the decoded
\* temperature is t when bit 23 of f is 0 and t - 4096 when it is 1, so it
\* lies in -2048..2047; 0xFF7 decodes to -9 and 0x00A to 10.
C5_Temperature ==
    /\ pc = "send" =>
          /\ temperature = SignedField12(lval)
          /\ temperature \in -2048..2047
          /\ Field(lval, 12, 12) = 4087 => temperature = -9
          /\ (Field(lval, 12, 12) = 10 /\ Bit(lval, 23) = 0) => temperature = 10
    /\ \A i \in 1..Len(serial) :
          serial[i].temperature = SignedField12(serial[i].src)

\* the frame with the temperature field 0xFF7 has been accepted and decoded
C5_Witness ==
    /\ pc = "send"
    /\ Field(lval, 12, 12) = 4087
    /\ Bit(lval, 23) = 1
    /\ temperature = -9


----------------------------------------------------------------------------
(* The frame boundary and the queue *)

\* the step is a rising edge that ends a low period inside the 4000 us
\* window, after a valid marker pulse
BoundaryStep == RisingStep /\ Near(lastHi, MarkerWidth) /\ DOpen(GapWidth)

\* C6: a frame is enqueued only by a frame-boundary edge at which bits is
\* exactly 36; every boundary edge leaves val = 0 and bits = 0, and a
\* boundary with bits different from 36 enqueues nothing.
C6_EnqueueAtBoundary ==
    [][ /\ (enqLog' # enqLog \/ (fifo' # fifo /\ pc' = pc)) =>
              ( /\ BoundaryStep
                /\ bits = FrameBits
                /\ enqLog' = Append(enqLog, val) )
        /\ BoundaryStep =>
              ( /\ val' = Zero64
                /\ bits' = 0
                /\ bits # FrameBits => (fifo' = fifo /\ enqLog' = enqLog) ) ]_vars

\* a transmission lost a bit to a bad pulse: its closing boundary came at
\* bits = 35, reset the accumulator and enqueued nothing
C6_Witness ==
    /\ scn.noisy
    /\ devLeft = 0
    /\ edges = TotalEdges - 1
    /\ Near(lastLow, GapWidth)
    /\ Near(lastHi, MarkerWidth)
    /\ val = Zero64
    /\ bits = 0
    /\ enqLog = << >>

\* frames handed to enqueue and not taken out since the last dequeue or flush
Offered == lenAtDrain + sinceDrain

\* C7: the queue holds between 0 and 10 frames in every reachable state;
\* 11 enqueues with no drain in between lose exactly one frame, and the
\* queue then holds exactly 10 frames, each one of the frames enqueued.
C7_QueueBounded ==
    /\ Len(fifo) <= QSize
    /\ Len(fifo) = (IF Offered <= QSize THEN Offered ELSE QSize)
    /\ Len(fifoIds) = Len(fifo)
    /\ \A i \in 1..Len(fifo) :
          /\ fifoIds[i] \in 1..Len(enqLog)
          /\ fifo[i] = enqLog[fifoIds[i]]
    /\ (lenAtDrain = 0 /\ sinceDrain = QSize + 1) =>
          /\ Len(fifo) = QSize
          /\ \A i \in 1..Len(fifo) : fifoIds[i] > Len(enqLog) - (QSize + 1)
          /\ \A i \in 1..(Len(fifo) - 1) : fifoIds[i] < fifoIds[i + 1]

\* 11 frames were enqueued into the empty queue with no drain in between
C7_Witness ==
    /\ lenAtDrain = 0
    /\ sinceDrain = QSize + 1
    /\ Len(enqLog) = QSize + 1
    /\ Len(fifo) = QSize
    /\ deqIds = << >>

\* C8: frames are dequeued in the order in which the handler enqueued them,
\* also when enqueues interleave with the dequeues of a tick.
C8_FifoOrder ==
    /\ \A i \in 1..(Len(deqIds) - 1) : deqIds[i] < deqIds[i + 1]
    /\ \A i \in 1..Len(fifoIds) :
          \A j \in 1..Len(deqIds) : deqIds[j] < fifoIds[i]
    /\ pc = "check" => lval = enqLog[deqIds[Len(deqIds)]]

\* a tick has dequeued a frame that was enqueued while its drain was running,
\* after frames that were queued before
C8_Witness ==
    /\ pc = "check"
    /\ Len(tickLog) >= 2
    /\ deqIds[Len(deqIds)] > tickBase
    /\ deqIds[Len(deqIds) - 1] <= tickBase

\* C9: every record carries number = (f >> 28) & 0xFF, battery =
\* (f >> 27) & 1, humidity = f & 0xFF and the temperature of the frame f
\* accepted in the same tick, never values of an earlier accepted frame.
C9_RecordFields ==
    /\ \A i \in 1..Len(serial) :
          LET f == serial[i].src
          IN  /\ serial[i].number = Field(f, 28, 8)
              /\ serial[i].battery = Field(f, 27, 1)
              /\ serial[i].humidity = Field(f, 0, 8)
              /\ serial[i].temperature = SignedField12(f)
    /\ \A k \in 1..Len(emitAt) :
          serial[Len(serial) - Len(emitAt) + k].src = tickLog[emitAt[k]]

\* two ticks accepted two different frames and printed each with its own fields
C9_Witness ==
    /\ Len(serial) = 2
    /\ serial[1].src = Frames[1]
    /\ serial[2].src = Frames[2]
    /\ serial[1].battery = 1
    /\ serial[2].battery = 0
    /\ serial[2].temperature = -9

CheckStep == pc = "check" /\ pc' # "check"

\* C10 as stated: a frame that fails the marker check while twoValidSets is
\* false becomes the reference frame and nothing is printed, so a frame is
\* accepted only if it equals the frame dequeued immediately before it in
\* the same tick.
C10_RefSetOnBadMarker ==
    /\ [][ (CheckStep /\ ~Marker1111(lval) /\ twoValidSets = FALSE) =>
              (refval' = lval /\ pc' = "while" /\ serial' = serial) ]_vars
    /\ [] ( \A k \in 1..Len(emitAt) :
              /\ emitAt[k] >= 2
              /\ tickLog[emitAt[k]] = tickLog[emitAt[k] - 1] )

\* C10 amended: a frame that fails the marker check while twoValidSets is
\* false leaves the reference frame unchanged and nothing is printed, so a
\* frame is accepted only if it equals the last frame with a valid marker
\* dequeued before it in the same tick; frames that fail the marker check
\* in between do not count.
C10_RefKeptOnBadMarker ==
    /\ [][ (CheckStep /\ ~Marker1111(lval) /\ twoValidSets = FALSE) =>
              (refval' = refval /\ pc' = "while" /\ serial' = serial) ]_vars
    /\ [] ( \A k \in 1..Len(emitAt) :
              \E j \in 1..(emitAt[k] - 1) :
                  /\ tickLog[j] = tickLog[emitAt[k]]
                  /\ Marker1111(tickLog[j])
                  /\ \A m \in (j + 1)..(emitAt[k] - 1) : ~Marker1111(tickLog[m]) )

\* a tick dequeued a valid frame, a frame with a bad marker and the valid
\* frame again, and accepted the third
C10_Witness ==
    /\ TickOver
    /\ Len(tickLog) = 3
    /\ Marker1111(tickLog[1])
    /\ ~Marker1111(tickLog[2])
    /\ tickLog[3] = tickLog[1]
    /\ emitAt = << 3 >>
    /\ Len(serial) = 1

----------------------------------------------------------------------------
(* The end of a tick *)

\* the frame dequeued last before the running tick started
LastOfEarlierTicks == enqLog[deqIds[Len(deqIds) - Len(tickLog)]]

\* C11: when the drain of a tick starts, refval is 0 and twoValidSets is
\* false; a tick that dequeues a single frame prints nothing, also when that
\* frame has the marker and is identical to the frame dequeued last in an
\* earlier tick.
C11_NoConfirmationAcrossTicks ==
    /\ (pc = "while" /\ tickLog = << >>) =>
          (refval = Zero64 /\ twoValidSets = FALSE)
    /\ pc = "loop" => (refval = Zero64 /\ twoValidSets = FALSE)
    /\ Len(tickLog) = 1 => emitAt = << >>
    /\ Len(tickLog) = 1 => pc \notin { "eval", "send" }

\* two ticks each dequeued one copy of the same valid frame and nothing was
\* printed
C11_Witness ==
    /\ TickOver
    /\ Len(tickLog) = 1
    /\ Len(deqIds) = 2
    /\ Marker1111(tickLog[1])
    /\ LastOfEarlierTicks = tickLog[1]
    /\ serial = << >>
    /\ edges = TotalEdges
    /\ fifo = << >>

\* C12: a tick prints at most one record.  Once a frame has been accepted,
\* every frame dequeued later in the same tick, also one that the handler
\* enqueued after the flush while the drain was still running, is dropped:
\* it is not evaluated and nothing is printed.
C12_OneRecordPerTick ==
    /\ [] ( Len(emitAt) <= 1 )
    /\ [][ (CheckStep /\ Len(emitAt) >= 1) =>
              ( /\ pc' = "while"
                /\ serial' = serial
                /\ refval' = refval
                /\ << temperature', battery', humidity', id' >>
                      = << temperature, battery, humidity, id >>
                /\ fifo' = fifo ) ]_vars

\* a tick accepted the second of two identical frames, flushed, and then
\* dequeued and dropped a third identical frame that was enqueued during
\* its drain
C12_Witness ==
    /\ TickOver
    /\ Len(tickLog) = 3
    /\ emitAt = << 2 >>
    /\ tickLog[3] = tickLog[2]
    /\ Marker1111(tickLog[3])
    /\ deqIds[Len(deqIds)] > tickBase
    /\ flushed = << >>
    /\ Len(serial) = 1

\* C13: every record comes from a frame with bits 8..11 = 1111 of which an
\* identical copy was dequeued earlier in the same tick; the first frame of
\* a tick is never accepted, and a tick that dequeues fewer than two frames
\* prints nothing.
C13_AcceptedFrames ==
    /\ \A k \in 1..Len(emitAt) :
          /\ emitAt[k] >= 2
          /\ Marker1111(tickLog[emitAt[k]])
          /\ \E j \in 1..(emitAt[k] - 1) : tickLog[j] = tickLog[emitAt[k]]
    /\ \A i \in 1..Len(serial) : Marker1111(serial[i].src)
    /\ Len(tickLog) < 2 => emitAt = << >>
    /\ pc \in { "eval", "send" } =>
          /\ Len(tickLog) >= 2
          /\ Marker1111(lval)
          /\ \E j \in 1..(Len(tickLog) - 1) : tickLog[j] = lval

\* a tick has printed its record for the second copy of the frame with the
\* temperature field 0xFF7, and the first frame of the tick was not accepted
C13_Witness ==
    /\ pc = "while"
    /\ emitAt = << 2 >>
    /\ tickLog = << Frames[2], Frames[2] >>
    /\ Len(serial) = 1
    /\ serial[1].src = Frames[2]
    /\ Marker1111(serial[1].src)

----------------------------------------------------------------------------
(* The marker pulse and noise *)

HandlerKeepsFrame == val' = val /\ bits' = bits /\ fifo' = fifo /\ enqLog' = enqLog

\* C14 as stated: on every falling edge gotone becomes true if the high
\* duration d is in the closed interval [500-TOL, 500+TOL] and false
\* otherwise, val, bits and the queue are unchanged, and a rising edge
\* appends a bit or recognises a boundary only after such a marker.
C14_ClosedMarker ==
    [][ /\ FallingStep =>
              ( /\ gotone' = DClosed(MarkerWidth)
                /\ HandlerKeepsFrame )
        /\ (RisingStep /\ ~HandlerKeepsFrame) =>
              (gotone /\ lastHi >= MarkerWidth - TOL /\ lastHi <= MarkerWidth + TOL)
      ]_vars

\* C14 amended: on every falling edge gotone becomes true if the high
\* duration d satisfies 500-TOL < d < 500+TOL and false otherwise, so a
\* pulse of exactly 400 or 600 us is no marker; val, bits and the queue are
\* unchanged, and a rising edge appends a bit or recognises a boundary only
\* if the high pulse that ended at the preceding falling edge was such a
\* marker.
C14_OpenMarker ==
    /\ [][ /\ FallingStep =>
                 ( /\ gotone' = DOpen(MarkerWidth)
                   /\ DEnd(MarkerWidth) => gotone' = FALSE
                   /\ HandlerKeepsFrame )
           /\ (RisingStep /\ ~HandlerKeepsFrame) =>
                 (gotone /\ Near(lastHi, MarkerWidth))
         ]_vars
    /\ [] ( pin = 0 => (gotone <=> Near(lastHi, MarkerWidth)) )

\* a high pulse of exactly 600 us inside a frame was not taken as a marker,
\* and the bits assembled before it are still there
C14_Witness ==
    /\ pin = 0
    /\ since = 0
    /\ lastHi = MarkerWidth + TOL
    /\ gotone = FALSE
    /\ bits >= 1

\* the low duration is in none of the windows around 1000, 2000 and 4000 us
DOutside == ~(DOpen(ZeroWidth) \/ DOpen(OneWidth) \/ DOpen(GapWidth))

\* C15: a rising edge whose low duration is outside the three windows, or
\* that arrives while gotone is false, leaves val, bits, gotone and the
\* queue unchanged: the frame in progress is neither aborted nor reset, and
\* only t0 and s0 are updated.
C15_NoiseIgnored ==
    [][ (RisingStep /\ (DOutside \/ ~gotone)) =>
            ( /\ HandlerKeepsFrame
              /\ gotone' = gotone
              /\ t0' = us'
              /\ s0' = 1 ) ]_vars

\* a low period of 3000 us after a valid marker, inside a frame: the bits
\* assembled so far are kept
C15_Witness ==
    /\ pin = 1
    /\ since = 0
    /\ lastLow = NoiseWidth
    /\ gotone
    /\ bits >= 1
    /\ fed = Broken
    /\ t0 = us
    /\ s0 = 1

----------------------------------------------------------------------------
(* Durations *)

\* the time the pin has really spent at its level when it changes in this
\* step, as the transmitter produced it
Elapsed == IF pin = 1 THEN lastHi' ELSE lastLow'

\* C16: the duration the handler classifies is (now - t0) mod 2^32, which
\* is the time that has really passed since the last processed edge, also
\* when micros() has wrapped between the two edges (now < t0); after every
\* processed edge t0 = now and s0 is the new level.
C16_DurationModulo ==
    [][ (pin' # pin) =>
            ( /\ t0' = us'
              /\ s0' = pin'
              /\ edges >= 1 =>
                    /\ us' = Add32(t0, U32(Elapsed))
                    /\ pin = 1 => (gotone' <=> Near(Elapsed, MarkerWidth))
                    /\ (pin = 0 /\ gotone) =>
                          /\ Near(Elapsed, ZeroWidth) => AppendsBit(0)
                          /\ Near(Elapsed, OneWidth) => AppendsBit(1)
                          /\ Near(Elapsed, GapWidth) => IsBoundary
                          /\ ~( Near(Elapsed, ZeroWidth) \/ Near(Elapsed, OneWidth)
                                \/ Near(Elapsed, GapWidth) ) => HandlerKeepsFrame )
      ]_vars

\* micros() wrapped to 0 during the first marker pulse, whose rising edge
\* was taken 500 us before the wrap; the pulse was measured as 500 us
C16_Witness ==
    /\ scn.lead
    /\ edges = 2
    /\ pin = 0
    /\ us = Zero32
    /\ t0 = Zero32
    /\ lastHi = MarkerWidth
    /\ gotone

----------------------------------------------------------------------------
(* The drain of a tick *)

\* the while loop of the running tick ends in this step
DrainEnds == pc = "while" /\ pc' = "reset"

\* C17 as stated: the drain loop of a tick ends only when the queue is
\* empty, every frame that was queued when the tick started has been
\* dequeued or flushed by then, and the drain loop terminates when the
\* handler enqueues finitely many frames during the tick.
C17_DrainComplete ==
    /\ [][ DrainEnds =>
              ( /\ fifo = << >>
                /\ startIds \subseteq (Range(deqIds) \cup flushedIds) ) ]_vars
    /\ (InTick ~> (pc = "reset"))

\* C17 amended: the drain loop of a tick ends only when the queue is empty,
\* every frame that was queued when the tick started has by then been
\* dequeued, flushed, or overwritten by an enqueue on the full queue during
\* the tick (the queue may overwrite its oldest frame), and the drain loop
\* terminates when the handler enqueues finitely many frames during the
\* tick.
C17_DrainCompleteOrLost ==
    /\ [][ DrainEnds =>
              ( /\ fifo = << >>
                /\ startIds \subseteq (Range(deqIds) \cup flushedIds \cup lostIds)
                /\ lostIds # { } => Cardinality(startIds) = QSize ) ]_vars
    /\ (InTick ~> (pc = "reset"))

\* a tick started with the full queue, an enqueue during its drain
\* overwrote the oldest frame, and the drain has ended with the queue empty
C17_Witness ==
    /\ pc = "reset"
    /\ Cardinality(startIds) = QSize
    /\ lostIds # { }
    /\ lostIds \subseteq startIds
    /\ fifo = << >>
    /\ Len(tickLog) >= 1

----------------------------------------------------------------------------
(* The width of the counters *)

\* a uint64_t below 2^36
Below2To36(f) == f[3] < 16 /\ f[4] = 0

\* C18: every value the handler enqueues is below 2^36 and is made of
\* exactly the 36 bits appended since the accumulator was last reset, for
\* every edge sequence, also one that appends more than 255 bits between
\* two boundaries.
C18_EnqueuedIs36Bits ==
    /\ [] ( \A i \in 1..Len(enqLog) : Below2To36(enqLog[i]) )
    /\ [][ (enqLog' # enqLog /\ fed # Broken) =>
              ( /\ Len(fed) = FrameBits
                /\ enqLog' = Append(enqLog, FrameOfBits(fed)) ) ]_vars

----------------------------------------------------------------------------
(* Interrupts without a level change *)

\* the handler runs in this step and reads the level it recorded last
SameLevelStep == edges' = edges /\ devLeft' < devLeft

\* what a rising edge does with a low period of e us after a valid marker
RisingTakes(e) ==
    /\ Near(e, ZeroWidth) => AppendsBit(0)
    /\ Near(e, OneWidth) => AppendsBit(1)
    /\ Near(e, GapWidth) => IsBoundary
    /\ ~(Near(e, ZeroWidth) \/ Near(e, OneWidth) \/ Near(e, GapWidth))
          => HandlerKeepsFrame

\* C19: when the handler runs and the pin reads the level recorded last,
\* nothing of the decoder changes: t0, s0, gotone, val, bits and the queue
\* keep their values, and the duration of the next edge is measured from
\* the older edge.
C19_SameLevelIgnored ==
    /\ [][ SameLevelStep =>
              ( /\ s0 = pin
                /\ UNCHANGED << t0, s0, gotone, val, bits, fifo, enqLog >> ) ]_vars
    /\ [][ (pin' # pin /\ since > 0 /\ edges >= 1 /\ edges < TotalEdges) =>
              ( /\ us' = Add32(t0, U32(Elapsed))
                /\ Elapsed > since
                /\ pin = 1 => (gotone' <=> Near(Elapsed, MarkerWidth))
                /\ (pin = 0 /\ gotone) => RisingTakes(Elapsed) ) ]_vars

\* the handler ran 100 us after an edge inside a frame with the level
\* unchanged: t0 is still the time of that edge and the bits are kept
C19_Witness ==
    /\ scn.noisy
    /\ devLeft = 0
    /\ since = TOL
    /\ s0 = pin
    /\ t0 # us
    /\ us = Add32(t0, U32(since))
    /\ bits >= 1

============================================================================
